---------------------------- MODULE Spec2Model ----------------------------
(***************************************************************************)
(* A model of two pieces of CuraEngine:                                    *)
(*                                                                         *)
(*   - Simplify::simplify (src/utils/Simplify.cpp), the greedy vertex      *)
(*     removal of a polygon or polyline, one action per step of the        *)
(*     function: the two early returns, the filling of the priority        *)
(*     queue, the three outcomes of one iteration of the while loop, and   *)
(*     the final sweep;                                                    *)
(*   - DistributedBeadingStrategy::compute                                 *)
(*     (src/BeadingStrategy/DistributedBeadingStrategy.cpp).               *)
(*                                                                         *)
(* Points are pairs <<x, y>> of integers.  Sequences are 1-based here and  *)
(* 0-based in the source: index i of the source is index i + 1 of the      *)
(* model, so the endpoints of a polyline are 1 and Len, and the order of   *)
(* indices (used to break ties in the queue) is the same.                  *)
(***************************************************************************)
EXTENDS Integers, Sequences, FiniteSets

VARIABLES
    polygon,        \* simplify: the input contour
    is_closed,      \* simplify: TRUE for a polygon, FALSE for a polyline
    max_resolution, \* Simplify::max_resolution
    max_deviation,  \* Simplify::max_deviation
    pc,             \* position in the running function
    to_delete,      \* simplify: the marker vector (<<>> before it is built)
    by_importance,  \* simplify: the priority queue, a set of <<index, importance>>
    result,         \* simplify: the working copy whose vertices may shift
    filtered,       \* simplify: the returned contour
    pass,           \* how many times simplify has been called on its own output
    last,           \* history: what the last step of simplify did
    stopped,        \* history: a validated pop exceeded max_deviation^2 in this call
    reinserted,     \* history: indices re-inserted since the last validated pop
    thickness,      \* compute: argument
    bead_count,     \* compute: argument
    ret             \* compute: the returned Beading

vars == <<polygon, is_closed, max_resolution, max_deviation, pc, to_delete,
          by_importance, result, filtered, pass, last, stopped, reinserted,
          thickness, bead_count, ret>>

simplify_vars == <<polygon, is_closed, max_resolution, max_deviation, to_delete,
                   by_importance, result, filtered, pass, last, stopped, reinserted>>

beading_vars == <<thickness, bead_count, ret>>

---------------------------------------------------------------------------
(* Bounds of the model. *)

\* Longest input contour drawn by Init.
MaxLen == 5

\* Longest input contour drawn by InitLong.
LongLen == 6

\* Number of times simplify is run on its own output.
MaxPass == 2

\* Largest thickness and bead count handed to compute.
MaxThickness == 20

MaxBeadCount == 5

\* The vertices input contours are built from: a long edge (0,0)-(40,0),
\* and three vertices within a few units of each other at its far end.
Points == {<<0, 0>>, <<40, 0>>, <<40, 6>>, <<46, 6>>}

\* The contours the specification names, and a polygon with a shallow bend.
Scenarios ==
    { << <<0, 0>>, <<50, 1>>, <<100, 0>> >>,
      << <<0, 0>>, <<0, 100>>, <<100, 100>>, <<100, 0>> >>,
      << <<0, 0>>, <<46, 40>>, <<40, 0>>, <<20, 1>>, <<30, 2>> >> }

\* Pairs <<max_resolution, max_deviation>>.
Tolerances == {<<0, 0>>, <<10, 6>>, <<100, 1>>, <<100, 6>>}

SeqsUpTo(S, n) == UNION {[1..k -> S] : k \in 0..n}

---------------------------------------------------------------------------
(* Integer and geometric primitives. *)

\* std::numeric_limits<coord_t>::max().  coord_t is 64 bits wide; the model
\* uses the largest 32-bit value, which no squared distance of the bounded
\* inputs comes near.
CoordMax == 2147483647

\* Simplify::min_resolution
min_resolution == 5

Abs(a) == IF a < 0 THEN -a ELSE a

\* C++ integer division: the quotient truncates towards zero.
Div(a, b) ==
    IF (a >= 0) = (b > 0) THEN Abs(a) \div Abs(b) ELSE -(Abs(a) \div Abs(b))

Max(a, b) == IF a >= b THEN a ELSE b

Sub(p, q) == <<p[1] - q[1], p[2] - q[2]>>

dot(p, q) == p[1] * q[1] + p[2] * q[2]

vSize2(p) == dot(p, p)

getDist2FromLine(p, a, b) ==
    LET vab == Sub(b, a)
        vap == Sub(p, a)
        ab_size2 == vSize2(vab)
        ap_size2 == vSize2(vap)
        dott == dot(vab, vap)
    IN  IF ab_size2 = 0
        THEN ap_size2
        ELSE Max(0, ap_size2 - Div(dott * dott, ab_size2))

\* [did_intersect |-> BOOLEAN, intersection |-> point]
lineLineIntersection(a, b, c, d) ==
    LET a1 == b[2] - a[2]
        b1 == a[1] - b[1]
        c1 == a1 * a[1] + b1 * a[2]
        a2 == d[2] - c[2]
        b2 == c[1] - d[1]
        c2 == a2 * c[1] + b2 * c[2]
        determinant == a1 * b2 - a2 * b1
    IN  IF determinant = 0
        THEN [did_intersect |-> FALSE, intersection |-> <<0, 0>>]
        ELSE [did_intersect |-> TRUE,
              intersection |-> <<Div(b2 * c1 - b1 * c2, determinant),
                                 Div(a1 * c2 - a2 * c1, determinant)>>]

---------------------------------------------------------------------------
(* Simplify: neighbour lookup, importance, remove. *)

\* (index + 1) % size and (index + size - 1) % size, on 1-based indices.
IndexAfter(index, size) == (index % size) + 1

IndexBefore(index, size) == ((index + size - 2) % size) + 1

RECURSIVE SkipForward(_, _)
SkipForward(index, del) ==
    IF del[index] THEN SkipForward(IndexAfter(index, Len(del)), del) ELSE index

RECURSIVE SkipBackward(_, _)
SkipBackward(index, del) ==
    IF del[index] THEN SkipBackward(IndexBefore(index, Len(del)), del) ELSE index

nextNotDeleted(index, del) == SkipForward(IndexAfter(index, Len(del)), del)

previousNotDeleted(index, del) == SkipBackward(IndexBefore(index, Len(del)), del)

Sq(a) == a * a

\* A faulty variant of importance: an endpoint of a polyline is scored like any vertex.
importance_unprotected(poly, del, index, closed) ==
    LET vertex == poly[index]
        before == poly[previousNotDeleted(index, del)]
        after == poly[nextNotDeleted(index, del)]
        deviation2 == getDist2FromLine(vertex, before, after)
    IN  IF deviation2 <= Sq(min_resolution)
        THEN deviation2
        ELSE IF /\ vSize2(Sub(before, vertex)) > Sq(max_resolution)
                /\ vSize2(Sub(after, vertex)) > Sq(max_resolution)
             THEN CoordMax
             ELSE deviation2

importance(poly, del, index, closed) ==
    IF ~closed /\ (index = 1 \/ index = Len(poly))
    THEN CoordMax
    ELSE LET vertex == poly[index]
             before == poly[previousNotDeleted(index, del)]
             after == poly[nextNotDeleted(index, del)]
             deviation2 == getDist2FromLine(vertex, before, after)
         IN  IF deviation2 <= Sq(min_resolution)
             THEN deviation2
             ELSE IF /\ vSize2(Sub(before, vertex)) > Sq(max_resolution)
                     /\ vSize2(Sub(after, vertex)) > Sq(max_resolution)
                  THEN CoordMax
                  ELSE deviation2

\* What remove leaves behind: the contour, the markers, and which return it took.
Removed(poly, del, outcome) == [polygon |-> poly, to_delete |-> del, outcome |-> outcome]

remove(poly, del, vertex, deviation2, closed) ==
    IF deviation2 <= Sq(min_resolution)
    THEN Removed(poly, [del EXCEPT ![vertex] = TRUE], "small")
    ELSE
    LET before == previousNotDeleted(vertex, del)
        after == nextNotDeleted(vertex, del)
        length2_before == vSize2(Sub(poly[vertex], poly[before]))
        length2_after == vSize2(Sub(poly[vertex], poly[after]))
        before_is_shorter == length2_before <= length2_after
    IN  IF length2_before <= Sq(max_resolution) /\ length2_after <= Sq(max_resolution)
        THEN Removed(poly, [del EXCEPT ![vertex] = TRUE], "short")
        ELSE IF \/ before_is_shorter /\ ~closed /\ before = 1
                \/ ~before_is_shorter /\ ~closed /\ after = Len(poly)
        THEN Removed(poly, del, "end_abort")
        ELSE
        LET before_from == IF before_is_shorter
                           THEN poly[previousNotDeleted(before, del)]
                           ELSE poly[before]
            before_to == IF before_is_shorter THEN poly[before] ELSE poly[vertex]
            after_from == IF before_is_shorter THEN poly[vertex] ELSE poly[after]
            after_to == IF before_is_shorter
                        THEN poly[after]
                        ELSE poly[nextNotDeleted(after, del)]
            hit == lineLineIntersection(before_from, before_to, after_from, after_to)
            intersection_deviation ==
                getDist2FromLine(hit.intersection, before_to, after_from)
        IN  IF ~hit.did_intersect
            THEN Removed(poly, del, "parallel")
            ELSE IF intersection_deviation <= Sq(max_deviation)
            THEN Removed([poly EXCEPT ![IF before_is_shorter THEN before ELSE after]
                                          = hit.intersection],
                         [del EXCEPT ![vertex] = TRUE], "moved")
            ELSE Removed(poly, del, "dev_abort")

\* The order of the priority queue: TRUE when vertex_a comes out after vertex_b.
comparator(vertex_a, vertex_b) ==
    \/ vertex_a[2] > vertex_b[2]
    \/ vertex_a[2] = vertex_b[2] /\ vertex_a[1] > vertex_b[1]

\* by_importance.top()
Top(queue) == CHOOSE v \in queue : \A w \in queue : ~comparator(v, w)

min_size(closed) == IF closed THEN 2 ELSE 3

\* A faulty variant of loop_continues: the loop runs down to two queued vertices.
loop_continues_to_two(queue) == Cardinality(queue) > 2

\* while(by_importance.size() > 3)
loop_continues(queue) == Cardinality(queue) > 3

\* The vertices of poly from index i on that are not marked, in order.
RECURSIVE Sweep(_, _, _)
Sweep(poly, del, i) ==
    IF i > Len(poly)
    THEN <<>>
    ELSE (IF del[i] THEN <<>> ELSE <<poly[i]>>) \o Sweep(poly, del, i + 1)

---------------------------------------------------------------------------
(* Simplify::simplify, step by step. *)

NoBeading == [total_thickness |-> 0, bead_widths |-> <<>>,
              toolpath_locations |-> <<>>, left_over |-> 0]

SimplifyStart(inputs, tolerances) ==
    /\ polygon \in inputs
    /\ is_closed \in BOOLEAN
    /\ \E t \in tolerances : max_resolution = t[1] /\ max_deviation = t[2]
    /\ pc = "call"
    /\ to_delete = <<>>
    /\ by_importance = {}
    /\ result = <<>>
    /\ filtered = <<>>
    /\ pass = 1
    /\ last = "none"
    /\ stopped = FALSE
    /\ reinserted = {}
    /\ thickness = 0
    /\ bead_count = 0
    /\ ret = NoBeading

Init == SimplifyStart(SeqsUpTo(Points, MaxLen) \cup Scenarios, Tolerances)

\* if(polygon.size() < min_size) return Polygon();
ReturnEmpty ==
    /\ pc = "call"
    /\ Len(polygon) < min_size(is_closed)
    /\ filtered' = <<>>
    /\ pc' = "done"
    /\ last' = "empty"
    /\ UNCHANGED <<polygon, is_closed, max_resolution, max_deviation, to_delete,
                   by_importance, result, pass, stopped, reinserted, beading_vars>>

\* if(polygon.size() == min_size) return polygon;
ReturnInput ==
    /\ pc = "call"
    /\ Len(polygon) = min_size(is_closed)
    /\ filtered' = polygon
    /\ pc' = "done"
    /\ last' = "unchanged"
    /\ UNCHANGED <<polygon, is_closed, max_resolution, max_deviation, to_delete,
                   by_importance, result, pass, stopped, reinserted, beading_vars>>

\* The marker vector, the queue of the initial importances, and the copy.
AddInitialPoints ==
    /\ pc = "call"
    /\ Len(polygon) > min_size(is_closed)
    /\ LET del == [i \in 1..Len(polygon) |-> FALSE]
       IN  /\ to_delete' = del
           /\ by_importance' =
                  {<<i, importance(polygon, del, i, is_closed)>> : i \in 1..Len(polygon)}
    /\ result' = polygon
    /\ pc' = "loop"
    /\ last' = "queued"
    /\ UNCHANGED <<polygon, is_closed, max_resolution, max_deviation, filtered,
                   pass, stopped, reinserted, beading_vars>>

\* The importance the popped vertex has now.
Recomputed(vertex) == importance(result, to_delete, vertex[1], is_closed)

\* One iteration: the popped importance is stale; re-insert and continue.
Reinsert ==
    /\ pc = "loop"
    /\ loop_continues(by_importance)
    /\ LET vertex == Top(by_importance)
           vertex_importance == Recomputed(vertex)
       IN  /\ vertex_importance # vertex[2]
           /\ by_importance' =
                  (by_importance \ {vertex}) \cup {<<vertex[1], vertex_importance>>}
           /\ reinserted' = reinserted \cup {vertex[1]}
    /\ last' = "reinsert"
    /\ UNCHANGED <<polygon, is_closed, max_resolution, max_deviation, pc, to_delete,
                   result, filtered, pass, stopped, beading_vars>>

\* A faulty variant of KeepVertex: the vertex that is kept goes back into the
\* queue.
KeepVertexQueued ==
    /\ pc = "loop"
    /\ loop_continues(by_importance)
    /\ LET vertex == Top(by_importance)
           vertex_importance == Recomputed(vertex)
       IN  /\ vertex_importance = vertex[2]
           /\ ~(vertex_importance <= Sq(max_deviation))
    /\ last' = "keep"
    /\ stopped' = TRUE
    /\ reinserted' = {}
    /\ UNCHANGED <<polygon, is_closed, max_resolution, max_deviation, pc, to_delete,
                   by_importance, result, filtered, pass, beading_vars>>

\* One iteration: the popped importance is current and above max_deviation^2;
\* the vertex leaves the queue and nothing else happens.
KeepVertex ==
    /\ pc = "loop"
    /\ loop_continues(by_importance)
    /\ LET vertex == Top(by_importance)
           vertex_importance == Recomputed(vertex)
       IN  /\ vertex_importance = vertex[2]
           /\ ~(vertex_importance <= Sq(max_deviation))
           /\ by_importance' = by_importance \ {vertex}
    /\ last' = "keep"
    /\ stopped' = TRUE
    /\ reinserted' = {}
    /\ UNCHANGED <<polygon, is_closed, max_resolution, max_deviation, pc, to_delete,
                   result, filtered, pass, beading_vars>>

\* One iteration: the popped importance is current and within max_deviation^2;
\* the vertex leaves the queue and remove decides.
RemoveVertex ==
    /\ pc = "loop"
    /\ loop_continues(by_importance)
    /\ LET vertex == Top(by_importance)
           vertex_importance == Recomputed(vertex)
           after == remove(result, to_delete, vertex[1], vertex_importance, is_closed)
       IN  /\ vertex_importance = vertex[2]
           /\ vertex_importance <= Sq(max_deviation)
           /\ by_importance' = by_importance \ {vertex}
           /\ result' = after.polygon
           /\ to_delete' = after.to_delete
           /\ last' = after.outcome
    /\ reinserted' = {}
    /\ UNCHANGED <<polygon, is_closed, max_resolution, max_deviation, pc, filtered,
                   pass, stopped, beading_vars>>

\* The loop has ended: copy the unmarked vertices and return.
FinalSweep ==
    /\ pc = "loop"
    /\ ~loop_continues(by_importance)
    /\ filtered' = Sweep(result, to_delete, 1)
    /\ pc' = "done"
    /\ last' = "swept"
    /\ UNCHANGED <<polygon, is_closed, max_resolution, max_deviation, to_delete,
                   by_importance, result, pass, stopped, reinserted, beading_vars>>

\* The caller simplifies the returned contour again, with the same tolerances.
Resimplify ==
    /\ pc = "done"
    /\ pass < MaxPass
    /\ polygon' = filtered
    /\ pass' = pass + 1
    /\ pc' = "call"
    /\ to_delete' = <<>>
    /\ by_importance' = {}
    /\ result' = <<>>
    /\ filtered' = <<>>
    /\ last' = "none"
    /\ stopped' = FALSE
    /\ reinserted' = {}
    /\ UNCHANGED <<is_closed, max_resolution, max_deviation, beading_vars>>

Next ==
    \/ ReturnEmpty
    \/ ReturnInput
    \/ AddInitialPoints
    \/ Reinsert
    \/ KeepVertex
    \/ RemoveVertex
    \/ FinalSweep
    \/ Resimplify

Spec == Init /\ [][Next]_vars

\* The same function on contours of up to LongLen vertices, one tolerance pair.
InitLong == SimplifyStart(SeqsUpTo(Points, LongLen), {<<100, 1>>})

SpecLong == InitLong /\ [][Next]_vars

---------------------------------------------------------------------------
(* DistributedBeadingStrategy::compute *)

\* A faulty variant of toolpath_location: the centre is taken from the rounded width.
toolpath_location_from_width(thick, count, bead_idx) ==
    Div(Div(thick, count) * (bead_idx * 2 + 1), 2)

\* thickness * (bead_idx * 2 + 1) / bead_count / 2
toolpath_location(thick, count, bead_idx) ==
    Div(Div(thick * (bead_idx * 2 + 1), count), 2)

\* A faulty variant of compute: left_over is what the rounded widths do not cover.
compute_residual(thick, count) ==
    IF count > 0
    THEN [total_thickness |-> thick,
          bead_widths |-> [i \in 1..count |-> Div(thick, count)],
          toolpath_locations |->
              [i \in 1..count |-> toolpath_location(thick, count, i - 1)],
          left_over |-> thick - count * Div(thick, count)]
    ELSE [total_thickness |-> thick, bead_widths |-> <<>>,
          toolpath_locations |-> <<>>, left_over |-> thick]

compute(thick, count) ==
    IF count > 0
    THEN [total_thickness |-> thick,
          bead_widths |-> [i \in 1..count |-> Div(thick, count)],
          toolpath_locations |->
              [i \in 1..count |-> toolpath_location(thick, count, i - 1)],
          left_over |-> 0]
    ELSE [total_thickness |-> thick, bead_widths |-> <<>>,
          toolpath_locations |-> <<>>, left_over |-> thick]

InitBeading ==
    /\ thickness \in 0..MaxThickness
    /\ bead_count \in 0..MaxBeadCount
    /\ ret = NoBeading
    /\ pc = "compute"
    /\ polygon = <<>>
    /\ is_closed = FALSE
    /\ max_resolution = 0
    /\ max_deviation = 0
    /\ to_delete = <<>>
    /\ by_importance = {}
    /\ result = <<>>
    /\ filtered = <<>>
    /\ pass = 1
    /\ last = "none"
    /\ stopped = FALSE
    /\ reinserted = {}

Compute ==
    /\ pc = "compute"
    /\ ret' = compute(thickness, bead_count)
    /\ pc' = "returned"
    /\ UNCHANGED <<thickness, bead_count, simplify_vars>>

NextBeading == Compute

SpecBeading == InitBeading /\ [][NextBeading]_vars

---------------------------------------------------------------------------
(* Properties of Simplify::simplify. *)

\* The greedy loop of the current call has been entered.
LoopEntered == to_delete # <<>>

Deleted == {i \in 1..Len(to_delete) : to_delete[i]}

\* C1: when simplify returns, a closed polygon of at least 3 vertices has
\* kept at least 3 vertices and an open polyline of at least 2 vertices has
\* kept at least 2.
VertexFloor ==
    pc = "done" =>
        /\ (is_closed /\ Len(polygon) >= 3) => Len(filtered) >= 3
        /\ (~is_closed /\ Len(polygon) >= 2) => Len(filtered) >= 2

\* C2: once the greedy loop of a call on an open polyline has been entered,
\* neither endpoint is ever marked in to_delete or moved in the working
\* copy, and the returned contour starts and ends with the input's first and
\* last points.
EndpointProtection ==
    (~is_closed /\ LoopEntered) =>
        /\ ~to_delete[1]
        /\ ~to_delete[Len(polygon)]
        /\ result[1] = polygon[1]
        /\ result[Len(polygon)] = polygon[Len(polygon)]
        /\ pc = "done" =>
              /\ Len(filtered) >= 2
              /\ filtered[1] = polygon[1]
              /\ filtered[Len(filtered)] = polygon[Len(polygon)]

\* C2's case: a call on an open polyline has returned after the loop deleted
\* a vertex and moved another one to an intersection point.
EndpointProtectionWitness ==
    /\ ~is_closed
    /\ pc = "done"
    /\ LoopEntered
    /\ Deleted # {}
    /\ result # polygon

\* The edges of a contour, as pairs of points; a closed one has the edge
\* from its last vertex back to its first.
Edges(contour, closed) ==
    {<<contour[k], contour[k + 1]>> : k \in 1..(Len(contour) - 1)}
        \cup (IF closed /\ Len(contour) > 0
              THEN {<<contour[Len(contour)], contour[1]>>}
              ELSE {})

\* p lies within distance d of the line through a and b (of the point a when
\* a = b), compared exactly: cross^2 <= d^2 * |ab|^2.
WithinOfLine(p, a, b, d) ==
    LET vab == Sub(b, a)
        vap == Sub(p, a)
        cross == vab[1] * vap[2] - vab[2] * vap[1]
    IN  IF a = b
        THEN vSize2(vap) <= Sq(d)
        ELSE Sq(cross) <= Sq(d) * vSize2(vab)

\* C3: when simplify returns, every removed vertex's input position lies
\* within max_deviation of the returned contour.  The distance is taken to
\* the lines that carry the contour's edges, the most lenient reading: a
\* vertex farther than max_deviation from every such line is farther than
\* that from every edge.
DeviationBound ==
    (pc = "done" /\ LoopEntered) =>
        \A i \in Deleted :
            \E e \in Edges(filtered, is_closed) :
                WithinOfLine(polygon[i], e[1], e[2], max_deviation)

\* C4 as stated: a second call on the result of the first, with the same
\* tolerances, returns its input.
Idempotence ==
    (pc = "done" /\ pass >= 2) => filtered = polygon

\* C4 as amended: a second call on a result of at most 3 vertices returns
\* its input.
IdempotenceUpToThree ==
    (pc = "done" /\ pass >= 2 /\ Len(polygon) <= 3) => filtered = polygon

\* C4's case: the second call ran the queue and the sweep on a polygon of
\* exactly 3 vertices that the first call returned.
IdempotenceUpToThreeWitness ==
    /\ pc = "done"
    /\ pass = 2
    /\ is_closed
    /\ Len(polygon) = 3
    /\ last = "swept"
    /\ filtered = polygon

\* C5: an input below the structural minimum (a closed polygon of 2 or fewer
\* vertices, an open polyline of fewer than 2) returns empty, and one of
\* exactly the minimum (3 closed, 2 open) is returned unchanged.
SmallInput ==
    pc = "done" =>
        /\ (is_closed /\ Len(polygon) <= 2) => filtered = <<>>
        /\ (~is_closed /\ Len(polygon) < 2) => filtered = <<>>
        /\ (is_closed /\ Len(polygon) = 3) => filtered = polygon
        /\ (~is_closed /\ Len(polygon) = 2) => filtered = polygon

\* C6: an open polyline of three vertices whose middle vertex is within
\* max_deviation of the line through the endpoints, and either within
\* min_resolution of it or between two edges no longer than max_resolution,
\* returns exactly its two endpoints; (0,0),(50,1),(100,0) is one.
NearColinearRemoved ==
    (pc = "done" /\ pass = 1 /\ ~is_closed /\ Len(polygon) = 3) =>
        LET deviation2 == getDist2FromLine(polygon[2], polygon[1], polygon[3])
        IN  (/\ deviation2 <= Sq(max_deviation)
             /\ \/ deviation2 <= Sq(min_resolution)
                \/ /\ vSize2(Sub(polygon[2], polygon[1])) <= Sq(max_resolution)
                   /\ vSize2(Sub(polygon[2], polygon[3])) <= Sq(max_resolution))
            => filtered = <<polygon[1], polygon[3]>>

\* C9: once a validated pop has exceeded max_deviation^2, no later step of
\* the same call marks a vertex deleted or moves one.
StopCondition ==
    [][(stopped /\ pc = "loop") => (to_delete' = to_delete /\ result' = result)]_vars

\* Every index in the queue is unmarked, and some index is unmarked.
QueueUndeleted ==
    LoopEntered =>
        /\ \A v \in by_importance : ~to_delete[v[1]]
        /\ Deleted # 1..Len(to_delete)

\* A step that re-inserts an index re-inserts one that has not been
\* re-inserted since the last validated pop.
ReinsertedOnce ==
    (pc = "loop" /\ last' = "reinsert" /\ by_importance' # by_importance)
        => reinserted' # reinserted

\* What is left for the loop to do: the queue's size first, then the number
\* of indices that have not been re-inserted since the last validated pop.
Measure ==
    Cardinality(by_importance) * (Len(polygon) + 1)
        + (Len(polygon) - Cardinality(reinserted))

\* Every iteration of the loop lowers Measure, which is never negative: a
\* validated pop shrinks the queue, a re-insertion uses up one more index.
LoopProgress ==
    /\ Measure >= 0
    /\ (pc = "loop" /\ pc' = "loop") => Measure' < Measure

\* C10: every call of simplify returns.  The queue holds only unmarked
\* indices and some index is unmarked (so the neighbour lookups return), no
\* index is re-inserted twice without a validated pop shrinking the queue in
\* between, so every iteration lowers a measure that is never negative, and
\* the loop ends with exactly 3 queued indices.
Termination ==
    /\ []QueueUndeleted
    /\ [][ReinsertedOnce]_vars
    /\ [][LoopProgress]_vars
    /\ []((pc = "done" /\ last = "swept") => Cardinality(by_importance) = 3)

\* C10's case: in the loop, after a deletion, a stale index has just been
\* re-inserted.
TerminationWitness ==
    /\ pc = "loop"
    /\ Deleted # {}
    /\ reinserted # {}

---------------------------------------------------------------------------
(* Properties of DistributedBeadingStrategy::compute. *)

RECURSIVE SumSeq(_)
SumSeq(s) == IF s = <<>> THEN 0 ELSE s[1] + SumSeq(Tail(s))

\* C7: for bead_count > 0 compute returns bead_count widths, each
\* thickness / bead_count, bead_count locations with location i at
\* thickness * (2i + 1) / (2 * bead_count), total_thickness = thickness and
\* left_over = 0.
BeadingTiling ==
    (pc = "returned" /\ bead_count > 0) =>
        /\ Len(ret.bead_widths) = bead_count
        /\ \A i \in 1..bead_count : ret.bead_widths[i] = thickness \div bead_count
        /\ Len(ret.toolpath_locations) = bead_count
        /\ \A i \in 0..(bead_count - 1) :
              ret.toolpath_locations[i + 1]
                  = (thickness * (2 * i + 1)) \div (2 * bead_count)
        /\ ret.total_thickness = thickness
        /\ ret.left_over = 0

\* C7's case: compute(10, 4) has returned.
BeadingTilingWitness ==
    /\ pc = "returned"
    /\ thickness = 10
    /\ bead_count = 4

\* C8 as stated: left_over is the thickness no bead covers.
ThicknessConservation ==
    pc = "returned" =>
        ret.left_over = ret.total_thickness - SumSeq(ret.bead_widths)

\* C8 as amended: left_over is thickness when bead_count = 0 and 0
\* otherwise; the thickness no bead covers is left_over plus the remainder
\* of thickness / bead_count, so left_over is the uncovered thickness
\* exactly when bead_count = 0 or bead_count divides thickness.
ThicknessConservationUpToRemainder ==
    pc = "returned" =>
        /\ bead_count = 0 =>
              /\ ret.bead_widths = <<>>
              /\ ret.toolpath_locations = <<>>
              /\ ret.left_over = thickness
        /\ bead_count > 0 =>
              /\ ret.left_over = 0
              /\ ret.total_thickness - SumSeq(ret.bead_widths)
                     = ret.left_over + (thickness % bead_count)

\* C8's case: compute has returned beads that do not tile the thickness.
ThicknessConservationWitness ==
    /\ pc = "returned"
    /\ bead_count > 0
    /\ thickness % bead_count # 0
    /\ ret.left_over = 0

=============================================================================
